---------------------------- MODULE Spec2Model ----------------------------
(***************************************************************************)
(* Model of gdshelpers/parts/spiral.py: the Archimedean double spiral.     *)
(*                                                                         *)
(* Numbers.  The source computes in floating point.  The model computes    *)
(* exactly, in the field spanned by 1, sqrt(2), pi and pi*sqrt(2) over the *)
(* rationals: a number is a record [q, s, p, ps, d] that stands for        *)
(*        (q + s*sqrt(2) + p*pi + ps*pi*sqrt(2)) / d                       *)
(* kept in lowest terms with d > 0, so that two numbers are equal exactly  *)
(* when their records are equal.                                           *)
(*                                                                         *)
(* Angles are held as whole multiples of pi/4 (the unit of the model), so  *)
(* that sin and cos stay inside the field.  np.pi used as an angle is Pi   *)
(* (= 4 units); np.pi used as a factor of a length is the number PiLen.    *)
(* The spiral constant b is therefore held per angle unit: the source's    *)
(* 2*(width+gap)/(2*np.pi) per radian is 2*(width+gap)/(2*Pi) per unit,    *)
(* and b*theta is the same length in both.                                 *)
(*                                                                         *)
(* The closed-form antiderivative of the arc-length element is             *)
(* transcendental.  For b # 0, with r = a + b*theta and x = r/b, it is     *)
(*        (b/2) * log|b|  +  |b| * h(x),                                   *)
(*        h(x) = (x*sqrt(x^2+1) + log(sqrt(x^2+1) + x)) / 2,               *)
(* and h is odd.  The model keeps log|b| and h(x), x > 0, as atoms, and a  *)
(* finite length as a number plus a combination of atoms with number       *)
(* coefficients, so that the values at r and -r, and at the same x for     *)
(* two b, are related as they are in the source; b, x and the atoms'       *)
(* coefficients are held per angle unit, as b is.  For b = 0 the source    *)
(* divides by zero: numpy yields inf or nan, which the model keeps as      *)
(* lengths of their own kind, with the IEEE rules for + and -.             *)
(***************************************************************************)
EXTENDS Integers, Sequences, FiniteSets, TLC

-----------------------------------------------------------------------------
(* Bounds of the model *)

MaxTheta == 4

MaxRadius == 1

MaxGap == 0

MaxCalls == 2

(* np.pi as an angle, in units of pi/4 *)
Pi == 4

HalfPi == Pi \div 2

-----------------------------------------------------------------------------
(* Exact arithmetic *)

Abs(x) == IF x < 0 THEN -x ELSE x

RECURSIVE GCD(_, _)
GCD(x, y) == IF y = 0 THEN x ELSE GCD(y, x % y)

Num(q, s, p, ps, d) ==
    IF d = 1
    THEN [q |-> q, s |-> s, p |-> p, ps |-> ps, d |-> 1]
    ELSE LET g == GCD(GCD(GCD(GCD(Abs(d), Abs(q)), Abs(s)), Abs(p)), Abs(ps))
                  * (IF d < 0 THEN -1 ELSE 1)
         IN  [q |-> q \div g, s |-> s \div g, p |-> p \div g,
              ps |-> ps \div g, d |-> d \div g]

Rat(n, d) == Num(n, 0, 0, 0, d)

I(n) == Rat(n, 1)

Zero == I(0)

PiLen == Num(0, 0, 1, 0, 1)

Add(x, y) == Num(x.q * y.d + y.q * x.d, x.s * y.d + y.s * x.d,
                 x.p * y.d + y.p * x.d, x.ps * y.d + y.ps * x.d, x.d * y.d)

Neg(x) == Num(-x.q, -x.s, -x.p, -x.ps, x.d)

Sub(x, y) == Add(x, Neg(y))

(* The product; at most one factor may have a pi part (pi*pi is outside the field). *)
Mul(x, y) == Num(x.q * y.q + 2 * x.s * y.s,
                 x.q * y.s + x.s * y.q,
                 x.q * y.p + x.p * y.q + 2 * (x.s * y.ps + x.ps * y.s),
                 x.q * y.ps + x.ps * y.q + x.s * y.p + x.p * y.s,
                 x.d * y.d)

(* x / y for a rational y # 0 *)
Div(x, y) == Num(x.q * y.d, x.s * y.d, x.p * y.d, x.ps * y.d, x.d * y.q)

IsRational(x) == x.s = 0 /\ x.p = 0 /\ x.ps = 0

(* an angle in radians: k units of pi/4 *)
Rad(k) == Mul(I(k), Div(PiLen, I(Pi)))

(* np.sin and np.cos at k units *)
Sin(k) == LET m == k % (2 * Pi)
          IN  CASE m = 0 -> Zero
                [] m = 1 -> Num(0, 1, 0, 0, 2)
                [] m = 2 -> I(1)
                [] m = 3 -> Num(0, 1, 0, 0, 2)
                [] m = 4 -> Zero
                [] m = 5 -> Num(0, -1, 0, 0, 2)
                [] m = 6 -> I(-1)
                [] OTHER -> Num(0, -1, 0, 0, 2)

Cos(k) == Sin(k + HalfPi)

-----------------------------------------------------------------------------
(* Lengths: the floats the length functions return.  A finite length is a  *)
(* number plus a combination of atoms: F maps <<"log", |b|>> (log|b|) and  *)
(* <<"h", x>> (h(x), x > 0) to the atom's coefficient; only nonzero        *)
(* coefficients are kept.  The other kinds are inf, -inf and nan.          *)

Coef(f, k) == IF k \in DOMAIN f THEN f[k] ELSE Zero

Atoms(f, g, sg) ==
    LET c(k) == Add(Coef(f, k), Mul(I(sg), Coef(g, k)))
    IN  [k \in {j \in (DOMAIN f) \cup (DOMAIN g) : c(j) # Zero} |-> c(k)]

NoAtoms == [k \in {} |-> Zero]

Finite(n, f) == [kind |-> "fin", n |-> n, F |-> f]

AsLen(n) == Finite(n, NoAtoms)

NaN == [kind |-> "nan", n |-> Zero, F |-> NoAtoms]

PosInf == [kind |-> "inf", n |-> Zero, F |-> NoAtoms]

NegInf == [kind |-> "ninf", n |-> Zero, F |-> NoAtoms]

IsFinite(x) == x.kind = "fin"

LNeg(x) ==
    CASE x.kind = "fin"  -> Finite(Neg(x.n), Atoms(NoAtoms, x.F, -1))
      [] x.kind = "inf"  -> NegInf
      [] x.kind = "ninf" -> PosInf
      [] OTHER           -> NaN

(* float addition: nan absorbs, inf + (-inf) is nan, inf absorbs a finite *)
LAdd(x, y) ==
    IF x.kind = "fin" /\ y.kind = "fin"
    THEN Finite(Add(x.n, y.n), Atoms(x.F, y.F, 1))
    ELSE IF x.kind = "nan" \/ y.kind = "nan" THEN NaN
    ELSE IF x.kind = "fin" THEN y
    ELSE IF y.kind = "fin" THEN x
    ELSE IF x.kind = y.kind THEN x
    ELSE NaN

LSub(x, y) == LAdd(x, LNeg(y))

(* float ==: nan equals nothing *)
LEq(x, y) == x.kind # "nan" /\ y.kind # "nan" /\ x = y

-----------------------------------------------------------------------------
(* The length model *)

(* the sign and the absolute value of a rational number *)
Sgn(x) == IF x.q > 0 THEN 1 ELSE IF x.q < 0 THEN -1 ELSE 0

AbsNum(x) == IF x.q < 0 THEN Neg(x) ELSE x

(* sqrt(r^2 + b^2) * r / (2*b) + 0.5 * b * log(sqrt(r^2 + b^2) + r) with     *)
(* r = a + b*theta; a and b are rational.                                    *)
(* For b = 0 the first term is |a|*a / 0: inf for a > 0, nan for a = 0,      *)
(* -inf for a < 0; the second is 0 * log(|a| + a): 0 for a > 0 and           *)
(* 0 * (-inf) = nan otherwise.                                               *)
(* For b # 0 and x = r/b, sqrt(r^2 + b^2) = |b|*sqrt(x^2 + 1): the first     *)
(* term is |b| * x*sqrt(x^2+1)/2, the second                                 *)
(* (b/2)*log|b| + (b/2)*log(sqrt(x^2+1) + sgn(b)*x), and as                  *)
(* log(sqrt(x^2+1) - x) = -log(sqrt(x^2+1) + x) the sum is                   *)
(* (b/2)*log|b| + |b|*h(x) = (b/2)*log|b| + sgn(x)*|b|*h(|x|).               *)
_arc_length_indefinite_integral(theta, a, b) ==
    IF b = Zero
    THEN IF a.q > 0 THEN PosInf ELSE NaN
    ELSE LET r    == Add(a, Mul(b, I(theta)))
             x    == Div(r, b)
             logb == [k \in {<<"log", AbsNum(b)>>} |-> Mul(Rat(1, 2), b)]
             hx   == IF x = Zero THEN NoAtoms
                     ELSE [k \in {<<"h", AbsNum(x)>>} |->
                              Mul(I(Sgn(x)), AbsNum(b))]
         IN  Finite(Zero, Atoms(logb, hx, 1))

_arc_length_integral(theta, a, b) ==
    LSub(_arc_length_indefinite_integral(theta, a, b),
         _arc_length_indefinite_integral(0, a, b))

_spiral_length_angle(theta, a, b, out_angle) ==
    LAdd(LAdd(_arc_length_integral(theta, a, b),
              AsLen(Mul(PiLen, a))),
         _arc_length_integral(theta + out_angle, a, b))

_spiral_length_inline(theta, a, b) ==
    LAdd(LAdd(_spiral_length_angle(theta, a, b, HalfPi),
              AsLen(Mul(Mul(Rat(1, 2), PiLen), Mul(Rat(1, 2), a)))),
         AsLen(Sub(Add(a, Mul(b, I(theta))), Mul(Rat(1, 2), a))))

(* the direct path taken without the quarter turn of the outbound arm *)
_spiral_length_inline_rel_no_quarter(theta, a, b) ==
    LSub(_spiral_length_inline(theta, a, b),
         AsLen(Add(Add(a, Mul(b, I(theta))), Mul(Rat(1, 2), a))))

_spiral_length_inline_rel(theta, a, b) ==
    LSub(_spiral_length_inline(theta, a, b),
         AsLen(Add(Add(a, Mul(b, I(theta + HalfPi))), Mul(Rat(1, 2), a))))

-----------------------------------------------------------------------------
(* The parametric arm *)

(* theta = min_theta + t * (max_theta - min_theta), for a t that lands on   *)
(* a whole angle unit                                                       *)
ThetaAt(t, max_theta, min_theta) ==
    Add(I(min_theta), Mul(t, I(max_theta - min_theta))).q

Vec(vx, vy) == [x |-> vx, y |-> vy]

VNeg(v) == Vec(Neg(v.x), Neg(v.y))

VSub(v, w) == Vec(Sub(v.x, w.x), Sub(v.y, w.y))

(* the center offset not following the winding direction *)
_spiral_out_path_fixed_center(t, a, b, max_theta, min_theta, theta_offset, direction) ==
    LET theta == ThetaAt(t, max_theta, min_theta)
        r     == Add(a, Mul(b, I(theta)))
    IN  Vec(Add(Mul(r, Sin(theta + theta_offset)), Zero),
            Add(Mul(r, Mul(I(-direction), Cos(theta + theta_offset))), a))

_spiral_out_path(t, a, b, max_theta, min_theta, theta_offset, direction) ==
    LET theta == ThetaAt(t, max_theta, min_theta)
        r     == Add(a, Mul(b, I(theta)))
    IN  Vec(Add(Mul(r, Sin(theta + theta_offset)), Zero),
            Add(Mul(r, Mul(I(-direction), Cos(theta + theta_offset))),
                Mul(I(direction), a)))

_d_spiral_out_path(t, a, b, max_theta, min_theta, theta_offset, direction) ==
    LET theta == ThetaAt(t, max_theta, min_theta)
        r     == Add(a, Mul(b, I(theta)))
    IN  Vec(Mul(r, Cos(theta + theta_offset)),
            Mul(r, Mul(I(direction), Sin(theta + theta_offset))))

-----------------------------------------------------------------------------
(* Python values *)

(* An output_type argument: a str s, or a number v (an angle, in units) *)
Str(s) == [isnum |-> FALSE, s |-> s, v |-> 0]

Number(v) == [isnum |-> TRUE, s |-> "", v |-> v]

(* output_type == "..." *)
IsStr(o, s) == ~o.isnum /\ o.s = s

-----------------------------------------------------------------------------
(* The waveguide builder the spiral drives: gdshelpers.parts.waveguide      *)

(* A waveguide is the sequence of the segments added to it, in order.  The   *)
(* three operations give the segment that the call appends.                 *)

NoPath == [rev |-> FALSE, a |-> Zero, b |-> Zero, max_theta |-> 0,
           theta_offset |-> 0, direction |-> 0, shift |-> Zero]

NoneWg == [isNone |-> TRUE, width |-> 0, segments |-> <<>>]

Waveguide_make_at_port(port) ==
    [isNone |-> FALSE, width |-> port.width, segments |-> <<>>]

add_straight_segment(length) ==
    [kind |-> "straight", length |-> length, angle |-> 0, radius |-> Zero,
     path |-> NoPath]

add_bend(angle, radius) ==
    [kind |-> "bend", length |-> Zero, angle |-> angle, radius |-> radius,
     path |-> NoPath]

add_parameterized_path(path) ==
    [kind |-> "path", length |-> Zero, angle |-> 0, radius |-> Zero,
     path |-> path]

-----------------------------------------------------------------------------
(* class Spiral *)

NoSpiral == [exists |-> FALSE]

Ok(v) == [raised |-> "none", value |-> v]

Raise(e) == [raised |-> e, value |-> NoSpiral]

(* inline_rel left out of the inline branch *)
Spiral_init_inline_only(width, gap, min_bend_radius, theta, output_type, winding_direction) ==
    LET self == [exists |-> TRUE,
                 _origin_port |-> [width |-> width],
                 gap |-> gap,
                 min_bend_radius |-> min_bend_radius,
                 total_theta |-> theta,
                 _wg |-> NoneWg,
                 output_type |-> output_type,
                 winding_direction |-> IF winding_direction = "left" THEN -1 ELSE 1,
                 out_theta |-> 0]
    IN  IF IsStr(output_type, "inline")
        THEN Ok([self EXCEPT !.out_theta = theta + HalfPi])
        ELSE IF ~output_type.isnum /\ output_type.s # "sideways"
        THEN Ok([self EXCEPT !.out_theta = theta])
        ELSE IF output_type.isnum
        THEN Ok([self EXCEPT !.out_theta = theta + output_type.v])
        ELSE Raise("TypeError")

Spiral_init(width, gap, min_bend_radius, theta, output_type, winding_direction) ==
    LET self == [exists |-> TRUE,
                 _origin_port |-> [width |-> width],
                 gap |-> gap,
                 min_bend_radius |-> min_bend_radius,
                 total_theta |-> theta,
                 _wg |-> NoneWg,
                 output_type |-> output_type,
                 winding_direction |-> IF winding_direction = "left" THEN -1 ELSE 1,
                 out_theta |-> 0]
    IN  IF IsStr(output_type, "inline") \/ IsStr(output_type, "inline_rel")
        THEN Ok([self EXCEPT !.out_theta = theta + HalfPi])
        ELSE IF IsStr(output_type, "opposite")
        THEN Ok([self EXCEPT !.out_theta = theta])
        ELSE IF IsStr(output_type, "single_inside") \/ IsStr(output_type, "single_outside")
        THEN Ok([self EXCEPT !.out_theta = theta])
        ELSE IF output_type.isnum
        THEN Ok([self EXCEPT !.out_theta = theta + output_type.v])
        ELSE Raise("TypeError")  \* float + str

make_at_port(port, gap, min_bend_radius, theta, output_type, winding_direction) ==
    Spiral_init(port.width, gap, min_bend_radius, theta, output_type, winding_direction)

(* The two functions handed to add_parameterized_path for the inbound arm *)
InboundPath(p, t) ==
    VSub(VNeg(_spiral_out_path(Sub(I(1), t), p.a, p.b, p.max_theta, 0,
                               p.theta_offset, p.direction)),
         Vec(Mul(I(p.direction), Zero), Mul(I(p.direction), p.shift)))

InboundDerivative(p, t) ==
    _d_spiral_out_path(Sub(I(1), t), p.a, p.b, p.max_theta, 0,
                       p.theta_offset, p.direction)

(* ... and for the outbound arm *)
OutboundPath(p, t) ==
    _spiral_out_path(t, p.a, p.b, p.max_theta, 0, 0, p.direction)

OutboundDerivative(p, t) ==
    _d_spiral_out_path(t, p.a, p.b, p.max_theta, 0, 0, p.direction)

(* a = 2*self.min_bend_radius, b = 2*(self.width + self.gap) / (2.*np.pi), *)
(* outer_r = (a + b*self.total_theta)                                        *)
GeomA(self) == Mul(I(2), I(self.min_bend_radius))

GeomB(self) == Div(I(2 * (self._origin_port.width + self.gap)), I(2 * Pi))

OuterR(self) == Add(GeomA(self), Mul(GeomB(self), I(self.total_theta)))

(* if self.output_type != "single_outside": the arm from the outside inward *)
InboundArm(self) ==
    IF ~IsStr(self.output_type, "single_outside")
    THEN <<add_parameterized_path(
               [rev |-> TRUE, a |-> GeomA(self), b |-> GeomB(self),
                max_theta |-> self.total_theta,
                theta_offset |-> -self.total_theta,
                direction |-> self.winding_direction,
                shift |-> Add(Neg(GeomA(self)), OuterR(self))])>>
    ELSE <<>>

(* the two semi-circles in the other order *)
CenterBendPair_swapped(self) ==
    IF    ~IsStr(self.output_type, "single_inside")
       /\ ~IsStr(self.output_type, "single_outside")
    THEN <<add_bend(self.winding_direction * Pi, I(self.min_bend_radius)),
           add_bend(-self.winding_direction * Pi, I(self.min_bend_radius))>>
    ELSE <<>>

(* the two semi-circles in the center *)
CenterBendPair(self) ==
    IF    ~IsStr(self.output_type, "single_inside")
       /\ ~IsStr(self.output_type, "single_outside")
    THEN <<add_bend(-self.winding_direction * Pi, I(self.min_bend_radius)),
           add_bend(self.winding_direction * Pi, I(self.min_bend_radius))>>
    ELSE <<>>

(* if self.output_type != "single_inside": the arm from the center outward *)
OutboundArm(self) ==
    IF ~IsStr(self.output_type, "single_inside")
    THEN <<add_parameterized_path(
               [rev |-> FALSE, a |-> GeomA(self), b |-> GeomB(self),
                max_theta |-> self.out_theta,
                theta_offset |-> 0,
                direction |-> self.winding_direction,
                shift |-> Zero])>>
    ELSE <<>>

(* inline, inline_rel: the straight and the quarter bend back to the input height *)
FinalAlignment(self) ==
    IF IsStr(self.output_type, "inline") \/ IsStr(self.output_type, "inline_rel")
    THEN <<add_straight_segment(Sub(OuterR(self), I(self.min_bend_radius))),
           add_bend(-self.winding_direction * HalfPi, I(self.min_bend_radius))>>
    ELSE <<>>

_generate(self) ==
    [self EXCEPT !._wg =
        [Waveguide_make_at_port(self._origin_port) EXCEPT
            !.segments = InboundArm(self) \o CenterBendPair(self)
                         \o OutboundArm(self) \o FinalAlignment(self)]]

(* the property without its cache test *)
wg_uncached(self) == [self |-> _generate(self), generated |-> 1]

(* The wg property: the instance afterwards, the waveguide returned, and    *)
(* whether _generate ran.  A Waveguide object is truthy, None is not.       *)
wg(self) ==
    IF self._wg.isNone
    THEN [self |-> _generate(self), generated |-> 1]
    ELSE [self |-> self, generated |-> 0]

-----------------------------------------------------------------------------
(* Solving the winding angle for a target length *)

ThetaGrid == 0 .. MaxTheta

(* length_function(x, a, b, *args) *)
ApplyLengthFn(fn, theta, a, b, args) ==
    CASE fn = "_spiral_length_inline"     -> _spiral_length_inline(theta, a, b)
      [] fn = "_spiral_length_inline_rel" -> _spiral_length_inline_rel(theta, a, b)
      [] fn = "_spiral_length_angle"      -> _spiral_length_angle(theta, a, b, args.v)
      [] OTHER                            -> _arc_length_integral(theta, a, b)

(* the starting estimate handed to fsolve: 20*np.pi *)
x0 == 20 * Pi

(* fsolve(lambda x: length_function(x, a, b, *args) - length, 20*np.pi).     *)
(* The TypeError of theta + str when the extra argument is not a number.     *)
(* For b = 0 the residual is nan at every angle: the iteration cannot move   *)
(* from its starting estimate, fsolve warns and returns it, and no exception *)
(* is raised.  For b # 0 the residual is finite and increasing with exactly  *)
(* one zero, which fsolve returns; the model has that outcome when the zero  *)
(* is an angle of the grid, and target lengths are drawn so that it is.      *)
_spiral_theta(length, wg_width, gap, min_bend_radius, fn, args) ==
    LET a == Mul(I(2), I(min_bend_radius))
        b == Div(I(2 * (wg_width + gap)), I(2 * Pi))
    IN  IF fn = "_spiral_length_angle" /\ ~args.isnum
        THEN {[raised |-> "TypeError", theta |-> 0, converged |-> FALSE]}
        ELSE IF \E v \in {ApplyLengthFn(fn, x0, a, b, args)} :
                    LSub(v, length).kind = "nan"
        THEN {[raised |-> "none", theta |-> x0, converged |-> FALSE]}
        ELSE {[raised |-> "none", theta |-> th, converged |-> TRUE] :
                 th \in {t \in ThetaGrid :
                            \E v \in {ApplyLengthFn(fn, t, a, b, args)} :
                                LEq(LSub(v, length), AsLen(Zero))}}

(* The dispatch of make_at_port_with_length: the length function and its extra argument *)
LengthFn(output_type) ==
    IF IsStr(output_type, "inline")
    THEN [fn |-> "_spiral_length_inline", args |-> Number(0)]
    ELSE IF IsStr(output_type, "inline_rel")
    THEN [fn |-> "_spiral_length_inline_rel", args |-> Number(0)]
    ELSE IF IsStr(output_type, "opposite")
    THEN [fn |-> "_spiral_length_angle", args |-> Number(0)]
    ELSE IF IsStr(output_type, "single_inside") \/ IsStr(output_type, "single_outside")
    THEN [fn |-> "_arc_length_integral", args |-> Number(0)]
    ELSE [fn |-> "_spiral_length_angle", args |-> output_type]

(* make_at_port_with_length, for one outcome of the solver *)
make_at_port_with_length(port, gap, min_bend_radius, outcome, output_type, winding_direction) ==
    IF outcome.raised # "none"
    THEN Raise(outcome.raised)
    ELSE make_at_port(port, gap, min_bend_radius, outcome.theta, output_type,
                      winding_direction)

-----------------------------------------------------------------------------
(* The state: one constructor call, the Spiral instance it returns and the   *)
(* accessor calls made on that instance                                     *)

VARIABLES
    spiral,      \* the instance the last constructor call returned, or NoSpiral
    raised,      \* the exception the last call raised, or "none"
    solve,       \* the arguments and the solver outcome of the last make_at_port_with_length
    op,          \* the name of the last call
    ret,         \* the waveguide the last accessor read through self.wg
    calls,       \* accessor calls made on the instance
    gen_count    \* runs of _generate on the instance

vars == <<spiral, raised, solve, op, ret, calls, gen_count>>

Widths == {1}

Gaps == -1 .. MaxGap

Radii == 0 .. MaxRadius

(* the angle offsets of the demonstration: -pi/2, pi/4, pi *)
Phis == {-HalfPi, 1, Pi}

OutputTypes ==
    {Str(s) : s \in {"opposite", "inline", "inline_rel", "single_inside",
                     "single_outside", "sideways"}}
    \cup {Number(v) : v \in Phis}

WindingDirections == {"left", "right"}

(* Target lengths: the lengths of three grid angles (at angle 0 the length   *)
(* of a single arm is 0); where the length function is nan, or fails, the   *)
(* lengths 0 and 1                                                          *)
TargetLengths(width, gap, min_bend_radius, lf) ==
    IF lf.args.isnum /\ width + gap # 0
    THEN {ApplyLengthFn(lf.fn, t, Mul(I(2), I(min_bend_radius)),
                        Div(I(2 * (width + gap)), I(2 * Pi)), lf.args) :
             t \in {0, 1, MaxTheta}}
    ELSE {AsLen(I(0)), AsLen(I(1))}

NoSolve == [called |-> FALSE, port_width |-> 0, gap |-> 0, min_bend_radius |-> 0,
            target_length |-> AsLen(Zero), output_type |-> Str(""),
            fn |-> "", args |-> Number(0),
            theta |-> 0, converged |-> FALSE, value |-> AsLen(Zero)]

Init ==
    /\ spiral = NoSpiral
    /\ raised = "none"
    /\ solve = NoSolve
    /\ op = "none"
    /\ ret = NoneWg
    /\ calls = 0
    /\ gen_count = 0

(* Spiral(origin, angle, width, gap, min_bend_radius, theta, output_type, winding_direction) *)
Construct ==
    /\ op = "none"
    /\ \E width \in Widths, gap \in Gaps, mbr \in Radii, theta \in ThetaGrid,
       ot \in OutputTypes, wd \in WindingDirections :
        LET r == Spiral_init(width, gap, mbr, theta, ot, wd)
        IN  /\ spiral' = r.value
            /\ raised' = r.raised
            /\ solve' = NoSolve
            /\ op' = "__init__"
            /\ ret' = NoneWg
            /\ calls' = 0
            /\ gen_count' = 0

(* Spiral.make_at_port_with_length(port, gap, min_bend_radius, target_length, output_type, ...) *)
ConstructWithLength ==
    /\ op = "none"
    /\ \E width \in Widths, gap \in Gaps, mbr \in Radii, ot \in OutputTypes,
       wd \in WindingDirections :
      LET lf == LengthFn(ot) IN
      \E target \in TargetLengths(width, gap, mbr, lf) :
      \E outcome \in _spiral_theta(target, width, gap, mbr, lf.fn, lf.args) :
        LET r == make_at_port_with_length([width |-> width], gap, mbr, outcome, ot, wd)
        IN  /\ spiral' = r.value
            /\ raised' = r.raised
            /\ solve' = [called |-> TRUE, port_width |-> width, gap |-> gap,
                         min_bend_radius |-> mbr, target_length |-> target,
                         output_type |-> ot, fn |-> lf.fn, args |-> lf.args,
                         theta |-> outcome.theta, converged |-> outcome.converged,
                         value |-> IF outcome.raised = "none"
                                   THEN ApplyLengthFn(lf.fn, outcome.theta,
                                            Mul(I(2), I(mbr)),
                                            Div(I(2 * (width + gap)), I(2 * Pi)),
                                            lf.args)
                                   ELSE AsLen(Zero)]
            /\ op' = "make_at_port_with_length"
            /\ ret' = NoneWg
            /\ calls' = 0
            /\ gen_count' = 0

(* The accessors: wg, and length, out_port and get_shapely_object, which   *)
(* read self.wg and hand it to the waveguide                                *)
Access(name) ==
    \E r \in {wg(spiral)} :
        /\ spiral' = r.self
        /\ ret' = r.self._wg
        /\ gen_count' = gen_count + r.generated
        /\ calls' = calls + 1
        /\ op' = name
        /\ raised' = "none"
        /\ UNCHANGED solve

GetWg ==
    /\ spiral.exists
    /\ calls < MaxCalls
    /\ Access("wg")

GetLength ==
    /\ spiral.exists
    /\ calls < MaxCalls
    /\ Access("length")

GetOutPort ==
    /\ spiral.exists
    /\ calls < MaxCalls
    /\ Access("out_port")

GetShapelyObject ==
    /\ spiral.exists
    /\ calls < MaxCalls
    /\ Access("get_shapely_object")

Next ==
    \/ Construct
    \/ ConstructWithLength
    \/ GetWg
    \/ GetLength
    \/ GetOutPort
    \/ GetShapelyObject

Spec == Init /\ [][Next]_vars

-----------------------------------------------------------------------------
(* What the waveguide reports of the segments it was given *)

(* The function and the derivative that a path segment carries, at t *)
PathFn(p, t) == IF p.rev THEN InboundPath(p, t) ELSE OutboundPath(p, t)

PathDerivative(p, t) ==
    IF p.rev THEN InboundDerivative(p, t) ELSE OutboundDerivative(p, t)

(* The length of the curve r = a + b*theta between the angles 0 and theta:   *)
(* the integral of sqrt(r^2 + b^2) over the span, whichever way it is       *)
(* traversed.  It is |a|*|theta| on the circle b = 0; otherwise the         *)
(* antiderivative increases with the angle, and the length is the           *)
(* difference of its values at the larger and at the smaller angle.         *)
ArcLength(theta, a, b) ==
    IF b = Zero
    THEN AsLen(Mul(AbsNum(a), Rad(Abs(theta))))
    ELSE IF theta >= 0
    THEN LSub(_arc_length_indefinite_integral(theta, a, b),
              _arc_length_indefinite_integral(0, a, b))
    ELSE LSub(_arc_length_indefinite_integral(0, a, b),
              _arc_length_indefinite_integral(theta, a, b))

(* The length of a segment: a straight's length, a bend's |angle| * radius, *)
(* an arm's arc length over the angle it spans                              *)
SegLength(seg) ==
    CASE seg.kind = "straight" -> AsLen(seg.length)
      [] seg.kind = "bend"     -> AsLen(Mul(Rad(Abs(seg.angle)), seg.radius))
      [] OTHER -> ArcLength(seg.path.max_theta, seg.path.a, seg.path.b)

RECURSIVE SumLengths(_)
SumLengths(segs) ==
    IF segs = <<>> THEN AsLen(Zero)
    ELSE LAdd(SegLength(Head(segs)), SumLengths(Tail(segs)))

wg_length(waveguide) == SumLengths(waveguide.segments)

(* The values of t at which an arm's angle is a whole unit *)
Samples(p) ==
    IF p.max_theta = 0 THEN {I(0), Rat(1, 2), I(1)}
    ELSE {Rat(j, Abs(p.max_theta)) : j \in 0 .. Abs(p.max_theta)}

-----------------------------------------------------------------------------
(* Properties *)

Generated == spiral.exists /\ ~spiral._wg.isNone

Segs == spiral._wg.segments

Pitch(self) == self._origin_port.width + self.gap

IsInline(o) == IsStr(o, "inline") \/ IsStr(o, "inline_rel")

Shape(seg) == [kind |-> seg.kind, rev |-> seg.path.rev, angle |-> seg.angle,
               radius |-> seg.radius, length |-> seg.length]

C1_Expected(self) ==
    LET wd    == self.winding_direction
        mbr   == I(self.min_bend_radius)
        outer == Rat(8 * self.min_bend_radius + Pitch(self) * self.total_theta, 4)
        arm(rev) == [kind |-> "path", rev |-> rev, angle |-> 0, radius |-> Zero,
                     length |-> Zero]
        bend(k)  == [kind |-> "bend", rev |-> FALSE, angle |-> k, radius |-> mbr,
                     length |-> Zero]
        straight == [kind |-> "straight", rev |-> FALSE, angle |-> 0,
                     radius |-> Zero, length |-> Sub(outer, mbr)]
    IN  CASE IsStr(self.output_type, "single_inside")  -> <<arm(TRUE)>>
          [] IsStr(self.output_type, "single_outside") -> <<arm(FALSE)>>
          [] IsInline(self.output_type) ->
                <<arm(TRUE), bend(-wd * Pi), bend(wd * Pi), arm(FALSE),
                  straight, bend(-wd * HalfPi)>>
          [] OTHER ->
                <<arm(TRUE), bend(-wd * Pi), bend(wd * Pi), arm(FALSE)>>

(* C1: _generate emits the segments in the order inbound arm, center bend    *)
(* pair (-dir*pi then +dir*pi, radius min_bend_radius), outbound arm, final  *)
(* alignment (straight of outer_radius - min_bend_radius, then a bend of     *)
(* -dir*pi/2); the inbound arm is missing only for single_outside, the       *)
(* outbound arm only for single_inside, the bend pair exactly for the two    *)
(* single variants, and the final alignment is there exactly for inline and  *)
(* inline_rel.                                                               *)
C1_SegmentOrder ==
    Generated =>
        [i \in 1 .. Len(Segs) |-> Shape(Segs[i])] = C1_Expected(spiral)

C1_Witness ==
    /\ Generated
    /\ IsStr(spiral.output_type, "inline_rel")
    /\ spiral.winding_direction = -1
    /\ spiral.total_theta = MaxTheta
    /\ Len(Segs) = 6

(* C2: for every topology but inline_rel the lengths of the emitted segments *)
(* sum to the length function that make_at_port_with_length selects for the  *)
(* topology, at total_theta; single_inside is one arm of length              *)
(* arc_length(total_theta); and a spiral built from a target length that the *)
(* solver met has that length.  Stated for the spirals of a valid geometry,  *)
(* width+gap > 0 and min_bend_radius > 0.                                    *)
C2_RealizedLength ==
    (/\ Generated
     /\ ~IsStr(spiral.output_type, "inline_rel")
     /\ Pitch(spiral) > 0
     /\ spiral.min_bend_radius > 0) =>
        \A lf \in {LengthFn(spiral.output_type)},
           realized \in {wg_length(spiral._wg)} :
            /\ LEq(realized,
                   ApplyLengthFn(lf.fn, spiral.total_theta, GeomA(spiral),
                                 GeomB(spiral), lf.args))
            /\ IsStr(spiral.output_type, "single_inside") =>
                  /\ Len(Segs) = 1
                  /\ Segs[1].kind = "path"
                  /\ LEq(realized,
                         _arc_length_integral(spiral.total_theta,
                                              GeomA(spiral), GeomB(spiral)))
            /\ (solve.called /\ solve.converged) =>
                  LEq(realized, solve.target_length)

(* C3: the path is generated on the first accessor call and only then: no    *)
(* path before the first call, one run of _generate after any number of      *)
(* calls, and every later call returns the path the first call cached.       *)
C3_GeneratedOnce ==
    /\ [](spiral.exists =>
            /\ calls = 0 => (gen_count = 0 /\ spiral._wg.isNone)
            /\ calls > 0 => (gen_count = 1 /\ ~spiral._wg.isNone
                             /\ ret = spiral._wg))
    /\ [][(calls > 0 /\ calls' = calls + 1) =>
            (spiral'._wg = spiral._wg /\ ret' = ret /\ gen_count' = gen_count)]_vars

C3_Witness ==
    /\ calls = MaxCalls
    /\ gen_count = 1
    /\ op = "length"
    /\ Len(ret.segments) = 4

(* a length that is a rational number <= 0 *)
LeZero(len) ==
    IsFinite(len) /\ len.F = NoAtoms /\ IsRational(len.n) /\ len.n.q <= 0

(* C4: make_at_port_with_length with target_length <= 0, width+gap <= 0 or   *)
(* min_bend_radius <= 0 fails with InvalidParameterError and returns no      *)
(* Spiral.                                                                   *)
C4_RejectsInvalidLengthCall ==
    (/\ op = "make_at_port_with_length"
     /\ \/ LeZero(solve.target_length)
        \/ solve.port_width + solve.gap <= 0
        \/ solve.min_bend_radius <= 0)
    => (raised = "InvalidParameterError" /\ ~spiral.exists)

(* C5: the constructor rejects width+gap <= 0, min_bend_radius <= 0 and an   *)
(* unrecognized output_type with InvalidParameterError: no instance with     *)
(* such a configuration exists, and a constructor call that returns no       *)
(* instance raised InvalidParameterError.                                    *)
C5_ConstructorRejectsInvalid ==
    /\ spiral.exists => (Pitch(spiral) > 0 /\ spiral.min_bend_radius > 0)
    /\ (op = "__init__" /\ ~spiral.exists) => raised = "InvalidParameterError"

(* C6: when the root-finder does not converge the call fails with            *)
(* ConvergenceError and no Spiral is built from the iterate.                 *)
C6_NoUnconvergedTheta ==
    (op = "make_at_port_with_length" /\ solve.called /\ ~solve.converged)
    => (raised = "ConvergenceError" /\ ~spiral.exists)

Mirror(self) ==
    Spiral_init(self._origin_port.width, self.gap, self.min_bend_radius,
                self.total_theta, self.output_type,
                IF self.winding_direction = -1 THEN "right" ELSE "left").value

Reflect(v) == Vec(v.x, Neg(v.y))

(* C7: the path of the other winding direction is the mirror image: the same *)
(* segment kinds, lengths and radii, every bend angle negated, and every arm *)
(* position and tangent with the same component along the launch axis and    *)
(* the negated component across it.                                          *)
C7_MirrorSymmetry ==
    Generated =>
        \A other \in {_generate(Mirror(spiral))._wg.segments} :
            /\ Len(other) = Len(Segs)
            /\ \A i \in 1 .. Len(Segs) :
                \A mine \in {Segs[i]}, theirs \in {other[i]} :
                    /\ theirs.kind = mine.kind
                    /\ SegLength(theirs) = SegLength(mine)
                    /\ theirs.radius = mine.radius
                    /\ theirs.angle = -mine.angle
                    /\ mine.kind = "path" =>
                         \A t \in Samples(mine.path) :
                            /\ PathFn(theirs.path, t)
                                  = Reflect(PathFn(mine.path, t))
                            /\ PathDerivative(theirs.path, t)
                                  = Reflect(PathDerivative(mine.path, t))

C7_Witness ==
    /\ Generated
    /\ IsStr(spiral.output_type, "inline")
    /\ spiral.winding_direction = -1
    /\ spiral.total_theta = MaxTheta
    /\ Pitch(spiral) > 0
    /\ spiral.min_bend_radius > 0
    /\ PathFn(Segs[4].path, I(1)).y # Zero
    /\ PathDerivative(Segs[4].path, I(1)).y # Zero

(* C8: for a, b > 0, at the angle the solver evaluates, the inline_rel       *)
(* length is the inline length minus a + b*(theta + pi/2) + a/2, and the     *)
(* inline length is the opposite formula with offset pi/2 plus               *)
(* (pi/2)*(a/2) plus a + b*theta - a/2.                                      *)
C8_InlineRelation ==
    (/\ solve.called
     /\ raised = "none"
     /\ solve.min_bend_radius > 0
     /\ solve.port_width + solve.gap > 0) =>
        LET th     == solve.theta
            mbr    == solve.min_bend_radius
            pitch  == solve.port_width + solve.gap
            a      == I(2 * mbr)
            b      == Rat(pitch, Pi)
            direct == Rat(12 * mbr + pitch * (th + HalfPi), 4)
            bend   == Num(0, 0, mbr, 0, 2)
            run    == Rat(4 * mbr + pitch * th, 4)
        IN  /\ solve.fn = "_spiral_length_inline_rel" =>
                 LEq(solve.value,
                     LSub(_spiral_length_inline(th, a, b), AsLen(direct)))
            /\ solve.fn = "_spiral_length_inline" =>
                 LEq(solve.value,
                     LAdd(LAdd(_spiral_length_angle(th, a, b, HalfPi),
                               AsLen(bend)), AsLen(run)))

C8_Witness ==
    /\ solve.called
    /\ solve.fn = "_spiral_length_inline_rel"
    /\ solve.theta = MaxTheta
    /\ solve.port_width + solve.gap > 0
    /\ solve.min_bend_radius > 0
    /\ raised = "none"

(* The angular offset of the outbound arm in a length function *)
LengthFnOffset(lf) ==
    CASE lf.fn = "_spiral_length_inline"     -> HalfPi
      [] lf.fn = "_spiral_length_inline_rel" -> HalfPi
      [] lf.fn = "_spiral_length_angle"      -> lf.args.v
      [] OTHER                               -> 0

(* C9: out_theta is total_theta for opposite and the single variants,        *)
(* total_theta + pi/2 for inline and inline_rel, total_theta + phi for an    *)
(* angle offset phi; and it is total_theta plus the offset of the length     *)
(* function that make_at_port_with_length selects for the same output_type.  *)
C9_OutTheta ==
    spiral.exists =>
        /\ spiral.out_theta = spiral.total_theta +
              (IF IsInline(spiral.output_type) THEN HalfPi
               ELSE IF spiral.output_type.isnum THEN spiral.output_type.v
               ELSE 0)
        /\ spiral.out_theta = spiral.total_theta
                              + LengthFnOffset(LengthFn(spiral.output_type))
        /\ solve.called =>
              /\ spiral.total_theta = solve.theta
              /\ spiral.out_theta = solve.theta + LengthFnOffset(solve)

C9_Witness ==
    /\ spiral.exists
    /\ solve.called
    /\ IsStr(spiral.output_type, "inline_rel")
    /\ spiral.total_theta = MaxTheta
    /\ spiral.out_theta = MaxTheta + HalfPi

(* C10: the tangent function of an arm returns, at every t,                  *)
(* r(theta)*(cos(theta+phi0), dir*sin(theta+phi0)) multiplied by the         *)
(* chain-rule factor (theta_max - theta_min); stated for the arms of a       *)
(* spiral with width+gap > 0, min_bend_radius > 0 and total_theta > 0.       *)
C10_TangentScaled ==
    (/\ Generated
     /\ Pitch(spiral) > 0
     /\ spiral.min_bend_radius > 0
     /\ spiral.total_theta > 0) =>
        \A i \in 1 .. Len(Segs) :
            Segs[i].kind = "path" =>
                LET p == Segs[i].path IN
                \A t \in Samples(p) :
                    LET theta  == ThetaAt(IF p.rev THEN Sub(I(1), t) ELSE t,
                                          p.max_theta, 0)
                        r      == Rat(8 * spiral.min_bend_radius
                                      + Pitch(spiral) * theta, 4)
                        factor == Rad(p.max_theta - 0)
                        c      == Cos(theta + p.theta_offset)
                        sn     == Sin(theta + p.theta_offset)
                    IN  PathDerivative(p, t) =
                            Vec(Mul(Mul(r, c), factor),
                                Mul(Mul(r, Mul(I(p.direction), sn)), factor))

=============================================================================
